---- MODULE Spec2Model ----
(***************************************************************************)
(* Model of src/middleware.js: the three POST handlers of the Salesforce   *)
(* -> MongoDB middleware (/sync_prompt_versions, /delete_prompt_versions,  *)
(* /sync_member_dependencies), the MongoDB operations they issue           *)
(* (connect, bulkWrite of updateOne upserts with $set, deleteMany with $in *)
(* and $nin, close) and the responses they send.                           *)
(*                                                                         *)
(* A document is a function from field names to values; a missing field is *)
(* a name outside its DOMAIN.  A collection is the sequence of its         *)
(* documents in natural (insertion) order; the _id MongoDB adds to every   *)
(* document is left out.  Every handler is an async function: one action   *)
(* per stretch of code between two awaits, and one per operation the       *)
(* server executes of an ordered bulkWrite, which is not atomic.           *)
(***************************************************************************)
EXTENDS Integers, Sequences, FiniteSets, TLC

\* ------------------------------------------------------------------ bounds
NumCalls == 2          \* calls (requests) of one behaviour
MaxBatch == 2          \* longest payload array
MaxDeps  == 3          \* longest dependentMembers array
MaxPrior == 1          \* documents of a collection before the first call

Calls == 1..NumCalls

\* ------------------------------------------------------------------ values
Collections == {"Prompt", "MemberDependencies"}

\* BSON null: what the driver sends for an undefined filter value
Null == "<null>"
\* the values `filter(Boolean)` and `if (!x)` reject, besides a missing field
Falsy == {"", Null}

EmptyDoc == [f \in {} |-> 0]

\* obj.field is a truthy value
Truthy(obj, field) == field \in DOMAIN obj /\ obj[field] \notin Falsy

\* obj.field, or Null for undefined (the driver serialises undefined as null)
Get(obj, field) == IF field \in DOMAIN obj THEN obj[field] ELSE Null

\* the elements of s at the indices in keep, in order
RECURSIVE SelectAt(_, _, _)
SelectAt(s, keep, i) ==
    IF i > Len(s) THEN <<>>
    ELSE (IF i \in keep THEN <<s[i]>> ELSE <<>>) \o SelectAt(s, keep, i + 1)

Range(s) == {s[i] : i \in DOMAIN s}

\* mutant: the filter is not looked at, every document matches
MatchesAny(doc, field, value) == TRUE

\* ------------------------------------------------------------------ MongoDB
\* { field: value } as a query: null matches a null or a missing field
Matches(doc, field, value) ==
    IF value = Null
    THEN field \notin DOMAIN doc \/ doc[field] = Null
    ELSE field \in DOMAIN doc /\ doc[field] = value

\* mutant: a field the document already has keeps its value
SetFieldsKeepOld(doc, fields) ==
    [f \in DOMAIN doc \cup DOMAIN fields |->
        IF f \in DOMAIN doc THEN doc[f] ELSE fields[f]]

\* mutant: the document is replaced by the fields given
SetFieldsReplace(doc, fields) == fields

\* { $set: fields }: the fields named are written, every other field is kept
SetFields(doc, fields) ==
    [f \in DOMAIN doc \cup DOMAIN fields |->
        IF f \in DOMAIN fields THEN fields[f] ELSE doc[f]]

\* mutant: the document is inserted without looking for a match
updateOneInsert(coll, op) ==
    Append(coll, SetFields((op.field :> op.value), op.set))

\* updateOne(filter, { $set }, { upsert: true }) on a collection: the first
\* matching document in natural order is updated; with no match a document
\* made of the filter's equality field and the $set fields is inserted
updateOne(coll, op) ==
    LET hits == {i \in DOMAIN coll : Matches(coll[i], op.field, op.value)}
    IN  IF hits # {}
        THEN LET i == CHOOSE j \in hits : \A k \in hits : j <= k
             IN  [coll EXCEPT ![i] = SetFields(coll[i], op.set)]
        ELSE Append(coll, SetFields((op.field :> op.value), op.set))

\* the insert of an upsert that matched nothing: a document made of the
\* filter's equality field and the $set fields
insertUpserted(coll, op) ==
    Append(coll, SetFields((op.field :> op.value), op.set))

\* deleteMany({ field: { $in: ids } })
deleteManyIn(coll, field, ids) ==
    LET hit(doc) == field \in DOMAIN doc /\ doc[field] \in Range(ids)
    IN  SelectAt(coll, {i \in DOMAIN coll : ~hit(coll[i])}, 1)

\* mutant: the filter is dropped, every document is deleted
deleteManyAll(coll, field, ids) == <<>>

\* mutant: $nin taken to match only the documents that have the field
deleteManyNinPresent(coll, field, ids) ==
    LET hit(doc) == field \in DOMAIN doc /\ doc[field] \notin Range(ids)
    IN  SelectAt(coll, {i \in DOMAIN coll : ~hit(coll[i])}, 1)

\* deleteMany({ field: { $nin: ids } }): a missing field is not in ids
deleteManyNin(coll, field, ids) ==
    LET hit(doc) == ~(field \in DOMAIN doc /\ doc[field] \in Range(ids))
    IN  SelectAt(coll, {i \in DOMAIN coll : ~hit(coll[i])}, 1)

\* ------------------------------------------------------------------ inputs
VersionIds == {"v1", "v2"}
ParentIds  == {"P1", "P2"}
DepIds     == {"D1", "D2"}
Payloads   == {1, 2}          \* contents of a field the middleware never reads

\* the objects with no field or the one field f
OptField(f, vals) == {EmptyDoc} \cup {(f :> v) : v \in vals}

\* the arrays of at most n elements of S
RECURSIVE SeqUpTo(_, _)
SeqUpTo(S, n) ==
    IF n = 0 THEN {<<>>}
    ELSE LET shorter == SeqUpTo(S, n - 1)
         IN  shorter \cup {Append(t, a) : t \in {u \in shorter : Len(u) = n - 1}, a \in S}

\* a PromptTemplateVersion record of a request body
PromptRecords ==
    { i @@ b : i \in OptField("promptVersionId", VersionIds),
               b \in OptField("body", Payloads) } \ {EmptyDoc}

\* an element of a dependentMembers array
Dependents ==
    { i @@ ("v" :> v) : i \in OptField("memberDependencyId", DepIds), v \in Payloads }

\* parentMember of a record: missing, without id, with an empty or a real id
ParentMembers == OptField("parentMember", OptField("parentMemberId", ParentIds \cup {""}))

\* a member-dependency record of a request body, its dependentMembers (when
\* it has the field) drawn from deps
MemberRecords(deps) ==
    { p @@ d : p \in ParentMembers, d \in OptField("dependentMembers", deps) }

\* a request: the route, req.query and req.body (an array, or something else)
Request(endpoint, query, isArray, payload) ==
    [endpoint |-> endpoint, query |-> query, isArray |-> isArray, payload |-> payload]

Queries == OptField("domain", {"MemberDependencies"})

\* ------------------------------------------------------------------ state
VARIABLES
    store,        \* the database: collection name -> documents in natural order
    req,          \* req[c]: the request of call c
    pc,           \* pc[c]: the await the handler of call c is suspended at
    conn,         \* conn[c]: the MongoClient of call c: "none", "open", "closed"
    bulkOps,      \* bulkOps[c]: the operations built by call c
    applied,      \* applied[c]: how many of them the server has executed
    ids,          \* ids[c]: parentIdsFromPayload / idsToDelete of call c
    pending,      \* pending[c]: the response the handler sends after close()
    resp,         \* resp[c]: the responses sent for call c
    log,          \* log[c]: the driver calls issued by call c, in order
    now,          \* the clock read by new Date()
    before,       \* before[c]: the database when call c arrived
    alone,        \* alone[c]: no other call was in flight while c was
    lastDone,     \* the call that answered last (0: none yet)
    pred,         \* pred[c]: lastDone when call c arrived
    prior,        \* the database before the first call
    miss,         \* miss[c]: the upsert call c is at found no match, and
                  \* has not inserted yet
    lastWrite     \* lastWrite[n][k]: the call and the $set of the updateOne
                  \* executed last in collection n with filter value k

vars == <<store, req, pc, conn, bulkOps, applied, ids, pending, resp, log, now,
          before, alone, lastDone, pred, prior, miss, lastWrite>>

NoResponse == EmptyDoc

InFlight(c) == pc[c] \notin {"idle", "done"}

\* mutant: the domain parameter of the query is not looked at
domainDefault(c) == "Prompt"

\* const domain = req.query.domain || 'Prompt'
domain(c) == IF Truthy(req[c].query, "domain") THEN req[c].query["domain"] ELSE "Prompt"

\* the collection a handler works on
collection(c) ==
    IF req[c].endpoint = "sync_member_dependencies" THEN "MemberDependencies"
    ELSE domain(c)

\* ------------------------------------------------------------------ the handlers' pure code
\* payload.map(doc => ({ updateOne: { filter: { promptVersionId:
\*   doc.promptVersionId }, update: { $set: doc }, upsert: true } }))
promptBulkOps(payload) ==
    [i \in DOMAIN payload |->
        [field |-> "promptVersionId",
         value |-> Get(payload[i], "promptVersionId"),
         set   |-> payload[i]]]

\* mutant: the records without an id are not filtered out
idsToDeleteUnfiltered(payload) ==
    [i \in DOMAIN payload |-> Get(payload[i], "promptVersionId")]

\* payload.map(p => p.promptVersionId).filter(Boolean)
idsToDelete(payload) ==
    SelectAt([i \in DOMAIN payload |-> Get(payload[i], "promptVersionId")],
             {i \in DOMAIN payload : Truthy(payload[i], "promptVersionId")}, 1)

\* doc.parentMember?.parentMemberId is truthy
hasParentId(doc) ==
    "parentMember" \in DOMAIN doc /\ Truthy(doc["parentMember"], "parentMemberId")

\* mutant: only the first parent id of the payload is collected
parentIdsFirstOnly(payload) ==
    LET found == SelectAt([i \in DOMAIN payload |->
                              IF hasParentId(payload[i])
                              THEN payload[i]["parentMember"]["parentMemberId"] ELSE Null],
                          {i \in DOMAIN payload : hasParentId(payload[i])}, 1)
    IN  IF found = <<>> THEN <<>> ELSE <<found[1]>>

\* payload.map(p => p.parentMember?.parentMemberId).filter(Boolean)
parentIdsFromPayload(payload) ==
    SelectAt([i \in DOMAIN payload |->
                 IF hasParentId(payload[i])
                 THEN payload[i]["parentMember"]["parentMemberId"] ELSE Null],
             {i \in DOMAIN payload : hasParentId(payload[i])}, 1)

\* mutant: a key already in the Map keeps its first value
mapSetKeepFirst(entries, d) ==
    IF \E i \in DOMAIN entries :
          entries[i]["memberDependencyId"] = d["memberDependencyId"]
    THEN entries
    ELSE Append(entries, d)

\* uniqueDependentsMap.set(d.memberDependencyId, d) on the Map's entries in
\* insertion order: an existing key keeps its place and takes the new value
mapSet(entries, d) ==
    LET at == {i \in DOMAIN entries :
                  entries[i]["memberDependencyId"] = d["memberDependencyId"]}
    IN  IF at # {}
        THEN [i \in DOMAIN entries |-> IF i \in at THEN d ELSE entries[i]]
        ELSE Append(entries, d)

\* dependents.forEach(d => { if (d.memberDependencyId) map.set(...) }) from
\* element i on, then Array.from(uniqueDependentsMap.values())
RECURSIVE uniqueDependentsFrom(_, _, _)
uniqueDependentsFrom(dependents, i, entries) ==
    IF i > Len(dependents) THEN entries
    ELSE uniqueDependentsFrom(dependents, i + 1,
            IF Truthy(dependents[i], "memberDependencyId")
            THEN mapSet(entries, dependents[i]) ELSE entries)

uniqueDependents(dependents) == uniqueDependentsFrom(dependents, 1, <<>>)

\* the operation built for one record with a parentMemberId, at time t
memberOp(doc, t) ==
    LET parentId   == doc["parentMember"]["parentMemberId"]
        dependents == IF "dependentMembers" \in DOMAIN doc
                      THEN doc["dependentMembers"] ELSE <<>>
    IN  [field |-> "parentMemberId",
         value |-> parentId,
         set   |-> [parentMemberId   |-> parentId,
                    parentMember     |-> doc["parentMember"],
                    dependentMembers |-> uniqueDependents(dependents),
                    lastSyncedAt     |-> t]]

\* mutant: one operation per parentMemberId, built from its first record
memberBulkOpsFirstPerParent(payload, t) ==
    LET first(i) == /\ hasParentId(payload[i])
                    /\ \A j \in 1..(i - 1) :
                          hasParentId(payload[j]) =>
                              payload[j]["parentMember"]["parentMemberId"]
                                  # payload[i]["parentMember"]["parentMemberId"]
    IN  SelectAt([i \in DOMAIN payload |->
                     IF hasParentId(payload[i]) THEN memberOp(payload[i], t) ELSE EmptyDoc],
                 {i \in DOMAIN payload : first(i)}, 1)

\* payload.map(doc => parentId ? { updateOne: ... } : null).filter(Boolean)
memberBulkOps(payload, t) ==
    SelectAt([i \in DOMAIN payload |->
                 IF hasParentId(payload[i]) THEN memberOp(payload[i], t) ELSE EmptyDoc],
             {i \in DOMAIN payload : hasParentId(payload[i])}, 1)

\* ------------------------------------------------------------------ steps
\* mutant: the response is sent a second time
RespondTwice(c, r) ==
    /\ resp' = [resp EXCEPT ![c] = Append(Append(@, r), r)]
    /\ pc' = [pc EXCEPT ![c] = "done"]
    /\ lastDone' = c

\* res.status(...).send(...): the handler of call c ends
Respond(c, r) ==
    /\ resp' = [resp EXCEPT ![c] = Append(@, r)]
    /\ pc' = [pc EXCEPT ![c] = "done"]
    /\ lastDone' = c

Issue(c, what) == log' = [log EXCEPT ![c] = Append(@, what)]

\* mutant: the length of the array is not looked at
emptyPayloadNotArray(c) == ~req[c].isArray

\* !Array.isArray(payload) || payload.length === 0
emptyPayload(c) == ~req[c].isArray \/ Len(req[c].payload) = 0

\* a request arrives: the payload check, then getMongoClient()
Receive(c) ==
    /\ pc[c] = "idle"
    /\ before' = [before EXCEPT ![c] = store]
    /\ pred' = [pred EXCEPT ![c] = lastDone]
    /\ alone' = [d \in Calls |->
                    IF d = c THEN \A e \in Calls : ~InFlight(e)
                    ELSE IF InFlight(d) THEN FALSE ELSE alone[d]]
    /\ IF emptyPayload(c)
       THEN /\ Respond(c, [status |-> 400,
                           error  |-> IF req[c].endpoint = "sync_member_dependencies"
                                      THEN "Payload must be a non-empty array"
                                      ELSE "Empty payload"])
            /\ UNCHANGED log
       ELSE /\ Issue(c, "connect")
            /\ pc' = [pc EXCEPT ![c] = "connect"]
            /\ UNCHANGED <<resp, lastDone>>
    /\ UNCHANGED <<store, req, conn, bulkOps, applied, ids, pending, now>>
    /\ UNCHANGED <<prior, miss, lastWrite>>

\* await client.connect() throws: the catch block answers 500
ConnectFail(c) ==
    /\ pc[c] = "connect"
    /\ Respond(c, [status |-> 500, error |-> "connect failed"])
    /\ UNCHANGED <<store, req, conn, bulkOps, applied, ids, pending, log, now,
                   before, alone, pred>>
    /\ UNCHANGED <<prior, miss, lastWrite>>

\* getMongoClient() returns: the code up to the next await
Connected(c) ==
    /\ pc[c] = "connect"
    /\ conn' = [conn EXCEPT ![c] = "open"]
    /\ CASE req[c].endpoint = "sync_prompt_versions" ->
              LET ops == promptBulkOps(req[c].payload)
              IN  /\ bulkOps' = [bulkOps EXCEPT ![c] = ops]
                  /\ IF Len(ops) > 0
                     THEN /\ Issue(c, "bulkWrite")
                          /\ pc' = [pc EXCEPT ![c] = "bulkWrite"]
                          /\ UNCHANGED pending
                     ELSE /\ Issue(c, "close")
                          /\ pc' = [pc EXCEPT ![c] = "close"]
                          /\ pending' = [pending EXCEPT ![c] =
                                 [status |-> 200, message |-> "UPSERT completed",
                                  domain |-> domain(c), count |-> Len(req[c].payload)]]
                  /\ UNCHANGED <<ids, now, resp, lastDone>>
         [] req[c].endpoint = "delete_prompt_versions" ->
              LET found == idsToDelete(req[c].payload)
              IN  /\ ids' = [ids EXCEPT ![c] = found]
                  /\ IF Len(found) > 0
                     THEN /\ Issue(c, "deleteMany")
                          /\ pc' = [pc EXCEPT ![c] = "deleteMany"]
                          /\ UNCHANGED pending
                     ELSE /\ Issue(c, "close")
                          /\ pc' = [pc EXCEPT ![c] = "close"]
                          /\ pending' = [pending EXCEPT ![c] =
                                 [status |-> 200, message |-> "DELETE completed",
                                  domain |-> domain(c), count |-> Len(found)]]
                  /\ UNCHANGED <<bulkOps, now, resp, lastDone>>
         [] req[c].endpoint = "sync_member_dependencies" ->
              LET found == parentIdsFromPayload(req[c].payload)
              IN  /\ ids' = [ids EXCEPT ![c] = found]
                  /\ IF Len(found) = 0
                     THEN /\ Issue(c, "close")
                          /\ pc' = [pc EXCEPT ![c] = "close"]
                          /\ pending' = [pending EXCEPT ![c] =
                                 [status |-> 400,
                                  error  |-> "No valid parentMemberId found in payload"]]
                          /\ UNCHANGED <<bulkOps, now>>
                     ELSE LET ops == memberBulkOps(req[c].payload, now)
                          IN  /\ bulkOps' = [bulkOps EXCEPT ![c] = ops]
                              /\ now' = now + 1
                              /\ IF Len(ops) > 0
                                 THEN /\ Issue(c, "bulkWrite")
                                      /\ pc' = [pc EXCEPT ![c] = "bulkWrite"]
                                 ELSE /\ Issue(c, "deleteMany")
                                      /\ pc' = [pc EXCEPT ![c] = "deleteMany"]
                              /\ UNCHANGED pending
                  /\ UNCHANGED <<resp, lastDone>>
    /\ UNCHANGED <<store, req, applied, before, alone, pred>>
    /\ UNCHANGED <<prior, miss, lastWrite>>

\* the server executes the next operation of an ordered bulkWrite: an
\* updateOne in one step, or the insert of an upsert whose query phase found
\* no match
BulkWriteStep(c) ==
    /\ pc[c] = "bulkWrite"
    /\ applied[c] < Len(bulkOps[c])
    /\ LET op == bulkOps[c][applied[c] + 1]
       IN  /\ store' = [store EXCEPT ![collection(c)] =
                           IF miss[c] THEN insertUpserted(@, op)
                           ELSE updateOne(@, op)]
           /\ lastWrite' = [lastWrite EXCEPT ![collection(c)] =
                               (op.value :> [call |-> c, set |-> op.set]) @@ @]
    /\ miss' = [miss EXCEPT ![c] = FALSE]
    /\ applied' = [applied EXCEPT ![c] = @ + 1]
    /\ UNCHANGED <<req, pc, conn, bulkOps, ids, pending, resp, log, now,
                   before, alone, lastDone, pred, prior>>

\* the query phase of the next upsert of an ordered bulkWrite finds no match;
\* the collection has no unique index, so the insert that follows is not
\* compared with the documents written in between
UpsertMiss(c) ==
    /\ pc[c] = "bulkWrite"
    /\ applied[c] < Len(bulkOps[c])
    /\ ~miss[c]
    /\ LET op == bulkOps[c][applied[c] + 1]
       IN  \A i \in DOMAIN store[collection(c)] :
               ~Matches(store[collection(c)][i], op.field, op.value)
    /\ miss' = [miss EXCEPT ![c] = TRUE]
    /\ UNCHANGED <<store, req, pc, conn, bulkOps, applied, ids, pending, resp,
                   log, now, before, alone, lastDone, pred, prior, lastWrite>>

\* mutant: the rejection of bulkWrite is swallowed and the handler goes on
\* to the delete phase
BulkWriteFailIgnored(c) ==
    /\ pc[c] = "bulkWrite"
    /\ req[c].endpoint = "sync_member_dependencies"
    /\ Issue(c, "deleteMany")
    /\ pc' = [pc EXCEPT ![c] = "deleteMany"]
    /\ UNCHANGED <<store, req, conn, bulkOps, applied, ids, pending, resp, now,
                   before, alone, lastDone, pred, prior, miss, lastWrite>>

\* await collection.bulkWrite(bulkOps) throws (the operations executed so
\* far stay): the catch block answers 500
BulkWriteFail(c) ==
    /\ pc[c] = "bulkWrite"
    /\ Respond(c, [status |-> 500, error |-> "bulkWrite failed"])
    /\ UNCHANGED <<store, req, conn, bulkOps, applied, ids, pending, log, now,
                   before, alone, pred>>
    /\ UNCHANGED <<prior, miss, lastWrite>>

\* await collection.bulkWrite(bulkOps) returns: the code up to the next await
BulkWriteReturn(c) ==
    /\ pc[c] = "bulkWrite"
    /\ applied[c] = Len(bulkOps[c])
    /\ IF req[c].endpoint = "sync_prompt_versions"
       THEN /\ Issue(c, "close")
            /\ pc' = [pc EXCEPT ![c] = "close"]
            /\ pending' = [pending EXCEPT ![c] =
                   [status |-> 200, message |-> "UPSERT completed",
                    domain |-> domain(c), count |-> Len(req[c].payload)]]
       ELSE /\ Issue(c, "deleteMany")
            /\ pc' = [pc EXCEPT ![c] = "deleteMany"]
            /\ UNCHANGED pending
    /\ UNCHANGED <<store, req, conn, bulkOps, applied, ids, resp, now,
                   before, alone, lastDone, pred>>
    /\ UNCHANGED <<prior, miss, lastWrite>>

\* await collection.deleteMany(...) returns: the code up to the next await
DeleteManyReturn(c) ==
    /\ pc[c] = "deleteMany"
    /\ LET coll  == store[collection(c)]
           after == IF req[c].endpoint = "delete_prompt_versions"
                    THEN deleteManyIn(coll, "promptVersionId", ids[c])
                    ELSE deleteManyNin(coll, "parentMemberId", ids[c])
       IN  /\ store' = [store EXCEPT ![collection(c)] = after]
           /\ pending' = [pending EXCEPT ![c] =
                  IF req[c].endpoint = "delete_prompt_versions"
                  THEN [status |-> 200, message |-> "DELETE completed",
                        domain |-> domain(c), count |-> Len(ids[c])]
                  ELSE [status |-> 200,
                        message |-> "Member dependency snapshot sync completed",
                        upserted |-> Len(bulkOps[c]),
                        deleted |-> Len(coll) - Len(after)]]
    /\ Issue(c, "close")
    /\ pc' = [pc EXCEPT ![c] = "close"]
    /\ UNCHANGED <<req, conn, bulkOps, applied, ids, resp, now,
                   before, alone, lastDone, pred>>
    /\ UNCHANGED <<prior, miss, lastWrite>>

\* await collection.deleteMany(...) throws: the catch block answers 500
DeleteManyFail(c) ==
    /\ pc[c] = "deleteMany"
    /\ Respond(c, [status |-> 500, error |-> "deleteMany failed"])
    /\ UNCHANGED <<store, req, conn, bulkOps, applied, ids, pending, log, now,
                   before, alone, pred>>
    /\ UNCHANGED <<prior, miss, lastWrite>>

\* await client.close() returns: the handler answers
Closed(c) ==
    /\ pc[c] = "close"
    /\ conn' = [conn EXCEPT ![c] = "closed"]
    /\ Respond(c, pending[c])
    /\ UNCHANGED <<store, req, bulkOps, applied, ids, pending, log, now,
                   before, alone, pred>>
    /\ UNCHANGED <<prior, miss, lastWrite>>

Next ==
    \E c \in Calls :
        \/ Receive(c)
        \/ ConnectFail(c)
        \/ Connected(c)
        \/ UpsertMiss(c)
        \/ BulkWriteStep(c)
        \/ BulkWriteFail(c)
        \/ BulkWriteReturn(c)
        \/ DeleteManyReturn(c)
        \/ DeleteManyFail(c)
        \/ Closed(c)

\* ------------------------------------------------------------------ initial states
\* the array bodies of at most MaxBatch records, the empty array excluded
Batches(records) == SeqUpTo(records, MaxBatch) \ {<<>>}

\* documents found in the collections before the first call
PriorPromptDocs == {[promptVersionId |-> "v1", body |-> 1], ("body" :> 1)}
PriorMemberDocs ==
    {[parentMemberId |-> "P1", parentMember |-> [parentMemberId |-> "P1"],
      dependentMembers |-> <<>>, lastSyncedAt |-> 0],
     ("body" :> 1)}

\* one ordinary request of each route, for the calls a scenario does not vary
Others ==
    { Request("sync_prompt_versions", EmptyDoc, TRUE,
              <<[promptVersionId |-> "v1", body |-> 2]>>),
      Request("delete_prompt_versions", EmptyDoc, TRUE, <<[promptVersionId |-> "v1"]>>),
      Request("sync_member_dependencies", EmptyDoc, TRUE,
              <<[parentMember |-> [parentMemberId |-> "P2"]]>>) }

\* what does not depend on the scenario
InitCalls ==
    /\ pc = [c \in Calls |-> "idle"]
    /\ conn = [c \in Calls |-> "none"]
    /\ bulkOps = [c \in Calls |-> <<>>]
    /\ applied = [c \in Calls |-> 0]
    /\ ids = [c \in Calls |-> <<>>]
    /\ pending = [c \in Calls |-> NoResponse]
    /\ resp = [c \in Calls |-> <<>>]
    /\ log = [c \in Calls |-> <<>>]
    /\ now = 1
    /\ before = [c \in Calls |-> store]
    /\ alone = [c \in Calls |-> TRUE]
    /\ lastDone = 0
    /\ pred = [c \in Calls |-> 0]
    /\ prior = store
    /\ miss = [c \in Calls |-> FALSE]
    /\ lastWrite = [n \in Collections |-> EmptyDoc]

\* flat sync: call 1 sends any batch, call 2 repeats it or sends an ordinary
\* request, the others send ordinary requests
InitPrompt ==
    /\ \E docs \in SeqUpTo(PriorPromptDocs, MaxPrior) :
          store = [n \in Collections |-> IF n = "Prompt" THEN docs ELSE <<>>]
    /\ \E first \in Batches(PromptRecords) :
          \E rest \in [Calls \ {1} -> Others \cup {Request("sync_prompt_versions",
                                                            EmptyDoc, TRUE, first)}] :
             req = [c \in Calls |->
                      IF c = 1 THEN Request("sync_prompt_versions", EmptyDoc, TRUE, first)
                      ELSE rest[c]]
    /\ InitCalls

\* reconciliation: calls 1 and 2 send any batch of records without
\* dependentMembers, the others send ordinary requests
InitMember ==
    /\ \E docs \in SeqUpTo(PriorMemberDocs, MaxPrior) :
          store = [n \in Collections |-> IF n = "MemberDependencies" THEN docs ELSE <<>>]
    /\ \E two \in [Calls \cap {1, 2} -> Batches(ParentMembers)] :
          \E rest \in [Calls \ {1, 2} -> Others] :
             req = [c \in Calls |->
                      IF c \in {1, 2}
                      THEN Request("sync_member_dependencies", EmptyDoc, TRUE, two[c])
                      ELSE rest[c]]
    /\ InitCalls

\* deduplication: call 1 sends one record with any dependentMembers for
\* parent P1, alone or followed by a record for P1 or P2
InitDedup ==
    /\ store = [n \in Collections |-> <<>>]
    /\ \E deps \in SeqUpTo(Dependents, MaxDeps) :
          \E tail \in {<<>>} \cup
                      {<<[parentMember |-> [parentMemberId |-> q, name |-> 2],
                          dependentMembers |-> <<[memberDependencyId |-> "D1", v |-> 1]>>]>> :
                           q \in ParentIds} :
             \E rest \in [Calls \ {1} -> Others] :
                req = [c \in Calls |->
                         IF c = 1
                         THEN Request("sync_member_dependencies", EmptyDoc, TRUE,
                                  <<[parentMember |-> [parentMemberId |-> "P1"],
                                     dependentMembers |-> deps]>> \o tail)
                         ELSE rest[c]]
    /\ InitCalls

\* every route with every shape of body: not an array, the empty array, a
\* batch without any id, a batch with ids; with and without ?domain=
MixedRequests ==
    UNION {
      { Request(e, q, FALSE, <<>>), Request(e, q, TRUE, <<>>),
        Request(e, q, TRUE, <<("body" :> 1)>>),
        Request(e, q, TRUE, <<[promptVersionId |-> "v1", body |-> 1], ("body" :> 2)>>) } :
          e \in {"sync_prompt_versions", "delete_prompt_versions"}, q \in Queries }
    \cup
      { Request("sync_member_dependencies", EmptyDoc, FALSE, <<>>),
        Request("sync_member_dependencies", EmptyDoc, TRUE, <<>>),
        Request("sync_member_dependencies", EmptyDoc, TRUE,
                <<[parentMember |-> [parentMemberId |-> ""]], ("body" :> 1)>>),
        Request("sync_member_dependencies", EmptyDoc, TRUE,
                <<[parentMember |-> [parentMemberId |-> "P2"]], ("body" :> 1)>>) }

InitMixed ==
    /\ \E a \in SeqUpTo(PriorPromptDocs, MaxPrior), b \in SeqUpTo(PriorMemberDocs, MaxPrior) :
          store = [n \in Collections |-> IF n = "Prompt" THEN a ELSE b]
    /\ req \in [Calls -> MixedRequests]
    /\ InitCalls

Init == InitPrompt \/ InitMember \/ InitDedup \/ InitMixed

Spec       == Init /\ [][Next]_vars
SpecPrompt == InitPrompt /\ [][Next]_vars
SpecMember == InitMember /\ [][Next]_vars
SpecDedup  == InitDedup /\ [][Next]_vars
SpecMixed  == InitMixed /\ [][Next]_vars

\* a step of the handler of call c after the request has arrived: the
\* promise it awaits is settled (resolved or rejected) by the driver
Settle(c) ==
    \/ ConnectFail(c)
    \/ Connected(c)
    \/ UpsertMiss(c)
    \/ BulkWriteStep(c)
    \/ BulkWriteFail(c)
    \/ BulkWriteReturn(c)
    \/ DeleteManyReturn(c)
    \/ DeleteManyFail(c)
    \/ Closed(c)

\* every awaited driver call settles in the end, and the event loop resumes
\* every handler whose promise has settled
SpecMixedFair ==
    InitMixed /\ [][Next]_vars /\ \A c \in Calls : WF_vars(Settle(c))

\* ------------------------------------------------------------------ vocabulary of the properties
SyncPrompt == "sync_prompt_versions"
DeletePrompt == "delete_prompt_versions"
SyncMember == "sync_member_dependencies"

\* call c has ended with a single 200 response
Succeeded(c) == pc[c] = "done" /\ Len(resp[c]) = 1 /\ resp[c][1]["status"] = 200

\* call c has ended with the single response status st
Answered(c, st) == pc[c] = "done" /\ Len(resp[c]) = 1 /\ resp[c][1]["status"] = st

\* call c ran with no other call in flight and nothing has happened since it
\* ended: the database is as c left it, and before[c] is as c found it
Settled(c) == alone[c] /\ lastDone = c /\ \A d \in Calls : ~InFlight(d)

\* the values of a field over the documents that have it
KeysOf(coll, field) == {coll[i][field] : i \in {j \in DOMAIN coll : field \in DOMAIN coll[j]}}

\* a record with a resolvable parentMemberId: parentMember is there and its
\* parentMemberId is there, not empty and not null
Resolvable(rec) ==
    /\ "parentMember" \in DOMAIN rec
    /\ "parentMemberId" \in DOMAIN rec["parentMember"]
    /\ rec["parentMember"]["parentMemberId"] \notin {"", Null}

ParentIdOf(rec) == rec["parentMember"]["parentMemberId"]

BatchParentIds(B) == {ParentIdOf(B[i]) : i \in {j \in DOMAIN B : Resolvable(B[j])}}

\* a body that passes the first check of a handler
NonEmptyArray(c) == req[c].isArray /\ Len(req[c].payload) > 0

\* ------------------------------------------------------------------ C1
\* C1: after a /sync_member_dependencies call that ran with no other call in
\* flight and answered 200, the parentMemberId values of the documents of
\* MemberDependencies are exactly the resolvable parentMemberId values of
\* the batch, and no document without a parentMemberId is left.
C1_ReconciliationCompleteness ==
    \A c \in Calls :
        (req[c].endpoint = SyncMember /\ Succeeded(c) /\ Settled(c)) =>
            LET coll == store["MemberDependencies"]
            IN  /\ \A i \in DOMAIN coll : "parentMemberId" \in DOMAIN coll[i]
                /\ KeysOf(coll, "parentMemberId") = BatchParentIds(req[c].payload)

\* a reconciliation has succeeded alone on a collection that held a document
\* whose key is not in the batch, with a batch that also holds a record
\* without a resolvable id
C1_Witness ==
    \E c \in Calls :
        /\ req[c].endpoint = SyncMember /\ Succeeded(c) /\ Settled(c)
        /\ \E i \in DOMAIN before[c]["MemberDependencies"] :
              LET doc == before[c]["MemberDependencies"][i]
              IN  \/ "parentMemberId" \notin DOMAIN doc
                  \/ doc["parentMemberId"] \notin BatchParentIds(req[c].payload)
        /\ \E i \in DOMAIN req[c].payload : ~Resolvable(req[c].payload[i])

\* ------------------------------------------------------------------ C2
\* C2: a /sync_member_dependencies call whose body is a non-empty array
\* without any resolvable parentMemberId is answered 400, issues neither a
\* bulkWrite nor a deleteMany, and leaves the collections as it found them.
C2_DestructiveEmptyGuard ==
    \A c \in Calls :
        (/\ req[c].endpoint = SyncMember
         /\ NonEmptyArray(c)
         /\ BatchParentIds(req[c].payload) = {}) =>
            /\ "bulkWrite" \notin Range(log[c])
            /\ "deleteMany" \notin Range(log[c])
            /\ pc[c] = "done" => Answered(c, 400)
            /\ (pc[c] = "done" /\ Settled(c)) => store = before[c]

\* ------------------------------------------------------------------ C3, C4
\* an entry of dependentMembers that carries a memberDependencyId
Keyed(e) == "memberDependencyId" \in DOMAIN e /\ e["memberDependencyId"] \notin {"", Null}

\* the dependentMembers a record sends (none when the field is no array)
InputDeps(rec) == IF "dependentMembers" \in DOMAIN rec THEN rec["dependentMembers"] ELSE <<>>

\* the entries without a memberDependencyId, in order
Unkeyed(deps) == SelectAt(deps, {i \in DOMAIN deps : ~Keyed(deps[i])}, 1)

\* the records of a batch that have a resolvable parentMemberId, in order
KeyedRecords(B) == SelectAt(B, {i \in DOMAIN B : Resolvable(B[i])}, 1)

\* record i is the last record of batch B for its parentMemberId
LastForParent(B, i) ==
    /\ Resolvable(B[i])
    /\ \A j \in DOMAIN B : (j > i /\ Resolvable(B[j])) => ParentIdOf(B[j]) # ParentIdOf(B[i])

\* the first document of a collection with this value of the field
FirstWith(coll, field, value) ==
    coll[CHOOSE i \in DOMAIN coll :
            /\ field \in DOMAIN coll[i] /\ coll[i][field] = value
            /\ \A j \in DOMAIN coll :
                  (field \in DOMAIN coll[j] /\ coll[j][field] = value) => i <= j]

\* C3: every entry of a record's dependentMembers that lacks a
\* memberDependencyId is preserved as it is in the stored dependentMembers:
\* after a reconciliation that succeeded alone, the entries without an id of
\* the stored document are those of the record, all of them and in order.
C3_UnkeyedPassThrough ==
    \A c \in Calls :
        (req[c].endpoint = SyncMember /\ Succeeded(c) /\ Settled(c)) =>
            \A i \in DOMAIN req[c].payload :
                LastForParent(req[c].payload, i) =>
                    LET rec == req[c].payload[i]
                        doc == FirstWith(store["MemberDependencies"], "parentMemberId",
                                         ParentIdOf(rec))
                    IN  Unkeyed(doc["dependentMembers"]) = Unkeyed(InputDeps(rec))

\* stored holds exactly one entry for every id of sent, equal to the last
\* entry of sent with that id
OnePerIdLastWins(sent, stored) ==
    \A k \in DOMAIN sent :
        Keyed(sent[k]) =>
            LET d    == sent[k]["memberDependencyId"]
                last == CHOOSE m \in DOMAIN sent :
                           /\ Keyed(sent[m]) /\ sent[m]["memberDependencyId"] = d
                           /\ \A n \in DOMAIN sent :
                                 (Keyed(sent[n]) /\ sent[n]["memberDependencyId"] = d)
                                    => n <= m
                at   == {j \in DOMAIN stored :
                            Keyed(stored[j]) /\ stored[j]["memberDependencyId"] = d}
            IN  /\ Cardinality(at) = 1
                /\ \A j \in at : stored[j] = sent[last]

\* C4: for every record with a resolvable parentMemberId and every
\* memberDependencyId d of its dependentMembers, the dependentMembers written
\* for it hold exactly one entry with id d, equal to the last entry with id d
\* of the input: in the operation built for the record, and in the stored
\* document once the call has succeeded (for the last record of a parent,
\* whose operation is the one the store keeps).
C4_DedupLastWins ==
    \A c \in Calls :
        req[c].endpoint = SyncMember =>
            /\ \A k \in DOMAIN bulkOps[c] :
                  OnePerIdLastWins(InputDeps(KeyedRecords(req[c].payload)[k]),
                                   bulkOps[c][k]["set"]["dependentMembers"])
            /\ (Succeeded(c) /\ Settled(c)) =>
                  \A i \in DOMAIN req[c].payload :
                      LastForParent(req[c].payload, i) =>
                          OnePerIdLastWins(
                              InputDeps(req[c].payload[i]),
                              FirstWith(store["MemberDependencies"], "parentMemberId",
                                        ParentIdOf(req[c].payload[i]))["dependentMembers"])

\* a reconciliation has succeeded alone for a record in which an id occurs
\* twice with different contents, another id in between
C4_Witness ==
    \E c \in Calls :
        /\ req[c].endpoint = SyncMember /\ Succeeded(c) /\ Settled(c)
        /\ \E i \in DOMAIN req[c].payload :
              /\ LastForParent(req[c].payload, i)
              /\ LET sent == InputDeps(req[c].payload[i])
                 IN  \E a, b, m \in DOMAIN sent :
                        /\ a < m /\ m < b
                        /\ Keyed(sent[a]) /\ Keyed(sent[b]) /\ Keyed(sent[m])
                        /\ sent[a]["memberDependencyId"] = sent[b]["memberDependencyId"]
                        /\ sent[m]["memberDependencyId"] # sent[a]["memberDependencyId"]
                        /\ sent[a] # sent[b]

\* ------------------------------------------------------------------ C5
\* a record with a valid promptVersionId
HasVersionId(rec) == "promptVersionId" \in DOMAIN rec /\ rec["promptVersionId"] \notin {"", Null}

ValidCount(B) == Cardinality({i \in DOMAIN B : HasVersionId(B[i])})

\* C5: in a /sync_prompt_versions call no write operation is built for a
\* record without a promptVersionId, and the count of the 200 response is the
\* number of records written, not the length of the payload.
C5_PartialIdentityTolerance ==
    \A c \in Calls :
        (req[c].endpoint = SyncPrompt /\ NonEmptyArray(c)) =>
            /\ "bulkWrite" \in Range(log[c]) =>
                  /\ Len(bulkOps[c]) = ValidCount(req[c].payload)
                  /\ \A k \in DOMAIN bulkOps[c] : bulkOps[c][k]["value"] \notin {"", Null}
            /\ Succeeded(c) => resp[c][1]["count"] = ValidCount(req[c].payload)

\* ------------------------------------------------------------------ C6
\* C6: once the response of a call has been sent, the connection the call
\* opened has been closed: no connection stays open after its call has ended.
C6_ConnectionReleased ==
    \A c \in Calls : pc[c] = "done" => conn[c] # "open"

\* ------------------------------------------------------------------ C7
\* C7: a body that is the empty array or no array, sent to
\* /sync_prompt_versions or /sync_member_dependencies, is answered 400 with
\* no store call at all (no connect, bulkWrite, deleteMany or close) and
\* the store unchanged.
C7_EmptyBatchRejection ==
    \A c \in Calls :
        (req[c].endpoint \in {SyncPrompt, SyncMember} /\ ~NonEmptyArray(c)) =>
            /\ log[c] = <<>>
            /\ conn[c] = "none"
            /\ pc[c] \in {"idle", "done"}
            /\ pc[c] = "done" => Answered(c, 400)
            /\ (pc[c] = "done" /\ Settled(c)) => store = before[c]

\* both sync routes have answered: one a body that is no array, the other
\* the empty array
C7_Witness ==
    \E c, d \in Calls :
        /\ req[c].endpoint = SyncPrompt /\ ~req[c].isArray /\ Answered(c, 400)
        /\ req[d].endpoint = SyncMember /\ req[d].isArray /\ req[d].payload = <<>>
        /\ Answered(d, 400)

\* ------------------------------------------------------------------ C8
\* no two documents of the collection have the same value of the field
NoDuplicate(coll, field) ==
    \A i, j \in DOMAIN coll :
        (i # j /\ field \in DOMAIN coll[i] /\ field \in DOMAIN coll[j])
            => coll[i][field] # coll[j][field]

\* call c2 repeated the request of call c1 right after it: both flat syncs
\* succeeded, each ran alone, and nothing happened between them or since
AppliedTwice(c1, c2) ==
    /\ c1 # c2
    /\ req[c1].endpoint = SyncPrompt /\ req[c2] = req[c1]
    /\ Succeeded(c1) /\ Succeeded(c2)
    /\ alone[c1] /\ pred[c2] = c1 /\ Settled(c2)

\* C8: flat upsert is idempotent: when the same /sync_prompt_versions batch
\* is applied twice in sequence the store after the second call is the store
\* after the first, and a collection without duplicate keys has none after.
C8_FlatUpsertIdempotent ==
    \A c1, c2 \in Calls :
        AppliedTwice(c1, c2) =>
            /\ store = before[c2]
            /\ NoDuplicate(before[c1][collection(c1)], "promptVersionId")
                  => NoDuplicate(store[collection(c1)], "promptVersionId")

\* a batch with a repeated key and a record without id has been applied
\* twice, the first time on a collection that was not empty
C8_Witness ==
    \E c1, c2 \in Calls :
        /\ AppliedTwice(c1, c2)
        /\ before[c1][collection(c1)] # <<>>
        /\ before[c2] # before[c1]
        /\ \E i, j \in DOMAIN req[c1].payload :
              /\ i < j
              /\ HasVersionId(req[c1].payload[i]) /\ HasVersionId(req[c1].payload[j])
              /\ req[c1].payload[i]["promptVersionId"] = req[c1].payload[j]["promptVersionId"]
              /\ req[c1].payload[i] # req[c1].payload[j]

\* ------------------------------------------------------------------ C9
\* record i is the last record of batch B for its promptVersionId
LastForVersion(B, i) ==
    /\ HasVersionId(B[i])
    /\ \A j \in DOMAIN B :
          (j > i /\ HasVersionId(B[j])) => B[j]["promptVersionId"] # B[i]["promptVersionId"]

\* some record of batch B with promptVersionId k carries field f
BatchCarries(B, k, f) ==
    \E j \in DOMAIN B : HasVersionId(B[j]) /\ B[j]["promptVersionId"] = k /\ f \in DOMAIN B[j]

\* C9 as stated: after a successful /sync_prompt_versions call the stored
\* document of every key of the batch is the incoming record verbatim.
C9_FullReplacement ==
    \A c \in Calls :
        (req[c].endpoint = SyncPrompt /\ Succeeded(c) /\ Settled(c)) =>
            \A i \in DOMAIN req[c].payload :
                LastForVersion(req[c].payload, i) =>
                    FirstWith(store[collection(c)], "promptVersionId",
                              req[c].payload[i]["promptVersionId"]) = req[c].payload[i]

\* C9 amended: after a successful /sync_prompt_versions call the stored
\* document of every key of the batch holds every field of the last incoming
\* record with that key, with the incoming value, and keeps, unchanged, every
\* field of the previously stored document with that key that no incoming
\* record with that key carries ($set merges, it does not replace).
C9_SetMerges ==
    \A c \in Calls :
        (req[c].endpoint = SyncPrompt /\ Succeeded(c) /\ Settled(c)) =>
            \A i \in DOMAIN req[c].payload :
                LastForVersion(req[c].payload, i) =>
                    LET rec  == req[c].payload[i]
                        k    == rec["promptVersionId"]
                        doc  == FirstWith(store[collection(c)], "promptVersionId", k)
                        old  == before[c][collection(c)]
                    IN  /\ k \in KeysOf(store[collection(c)], "promptVersionId")
                        /\ \A f \in DOMAIN rec : f \in DOMAIN doc /\ doc[f] = rec[f]
                        /\ k \in KeysOf(old, "promptVersionId") =>
                              \A f \in DOMAIN FirstWith(old, "promptVersionId", k) :
                                  ~BatchCarries(req[c].payload, k, f) =>
                                      /\ f \in DOMAIN doc
                                      /\ doc[f] = FirstWith(old, "promptVersionId", k)[f]

\* a flat sync has succeeded alone with a record for a key whose stored
\* document had a field that no record of the batch carries
C9_Witness ==
    \E c \in Calls :
        /\ req[c].endpoint = SyncPrompt /\ Succeeded(c) /\ Settled(c)
        /\ \E i \in DOMAIN req[c].payload :
              /\ LastForVersion(req[c].payload, i)
              /\ LET k   == req[c].payload[i]["promptVersionId"]
                     old == before[c][collection(c)]
                 IN  /\ k \in KeysOf(old, "promptVersionId")
                     /\ \E f \in DOMAIN FirstWith(old, "promptVersionId", k) :
                           ~BatchCarries(req[c].payload, k, f)

\* ------------------------------------------------------------------ C10
\* call d has issued no write on MemberDependencies
NoMemberWrite(d) ==
    \/ collection(d) # "MemberDependencies"
    \/ Range(log[d]) \cap {"bulkWrite", "deleteMany"} = {}

\* calls c1 and c2 are the two reconciliations that have run, both answered
\* 200, and no other call has written to MemberDependencies
BothReconciled(c1, c2) ==
    /\ c1 # c2
    /\ req[c1].endpoint = SyncMember /\ req[c2].endpoint = SyncMember
    /\ Succeeded(c1) /\ Succeeded(c2)
    /\ \A d \in Calls \ {c1, c2} : NoMemberWrite(d)

\* C10: two reconciliations on the same collection are not coordinated.
\* Whatever the interleaving of their upsert and delete steps, once both have
\* answered 200 the key set of the collection is the key set of one batch or
\* the keys the two batches share; the witness is the interleaving after which
\* it equals neither the first batch's key set nor the second's.
C10_UncoordinatedOutcomes ==
    \A c1, c2 \in Calls :
        BothReconciled(c1, c2) =>
            LET K1 == BatchParentIds(req[c1].payload)
                K2 == BatchParentIds(req[c2].payload)
            IN  KeysOf(store["MemberDependencies"], "parentMemberId")
                    \in {K1, K2, K1 \cap K2}

\* both reconciliations have answered 200 and the key set of the collection
\* is neither batch's key set
C10_NeitherBatch ==
    \E c1, c2 \in Calls :
        /\ BothReconciled(c1, c2)
        /\ KeysOf(store["MemberDependencies"], "parentMemberId")
              \notin {BatchParentIds(req[c1].payload), BatchParentIds(req[c2].payload)}

\* ------------------------------------------------------------------ C11
\* the documents of a collection with their multiplicities, whatever their
\* natural order
DocBag(coll) ==
    [doc \in Range(coll) |-> Cardinality({i \in DOMAIN coll : coll[i] = doc})]

\* the operations ops[i], ops[i+1], ... executed one after the other
RECURSIVE ApplyOps(_, _, _)
ApplyOps(coll, ops, i) ==
    IF i > Len(ops) THEN coll
    ELSE ApplyOps(updateOne(coll, ops[i]), ops, i + 1)

\* call d has issued no write to collection n
NoWriteTo(d, n) ==
    \/ collection(d) # n
    \/ Range(log[d]) \cap {"bulkWrite", "deleteMany"} = {}

VersionIdsOf(B) == {B[i]["promptVersionId"] : i \in {j \in DOMAIN B : HasVersionId(B[j])}}

\* calls c1 and c2 are flat syncs into the same collection, every record of
\* both carries a valid promptVersionId, no id occurs in both batches, both
\* answered 200, and no other call has written to that collection
DisjointFlat(c1, c2) ==
    /\ c1 # c2
    /\ req[c1].endpoint = SyncPrompt /\ req[c2].endpoint = SyncPrompt
    /\ NonEmptyArray(c1) /\ NonEmptyArray(c2)
    /\ collection(c1) = collection(c2)
    /\ \A i \in DOMAIN req[c1].payload : HasVersionId(req[c1].payload[i])
    /\ \A i \in DOMAIN req[c2].payload : HasVersionId(req[c2].payload[i])
    /\ VersionIdsOf(req[c1].payload) \cap VersionIdsOf(req[c2].payload) = {}
    /\ Succeeded(c1) /\ Succeeded(c2)
    /\ \A d \in Calls \ {c1, c2} : NoWriteTo(d, collection(c1))

\* the collection after the batch of c1, then the batch of c2, each executed
\* in one piece on what the database held before the first call
InSequence(c1, c2) ==
    ApplyOps(ApplyOps(prior[collection(c1)], promptBulkOps(req[c1].payload), 1),
             promptBulkOps(req[c2].payload), 1)

\* C11: two /sync_prompt_versions calls whose batches carry only valid
\* promptVersionIds and share none leave, however their store operations were
\* interleaved, the documents that either sequential order leaves: the two
\* sequential orders agree, and the collection holds exactly their documents.
C11_DisjointUpsertsCommute ==
    \A c1, c2 \in Calls :
        DisjointFlat(c1, c2) =>
            /\ DocBag(InSequence(c1, c2)) = DocBag(InSequence(c2, c1))
            /\ DocBag(store[collection(c1)]) = DocBag(InSequence(c1, c2))

\* two such calls overlapped, and the documents were inserted in the order
\* opposite to the sequential order c1, c2
C11_Witness ==
    \E c1, c2 \in Calls :
        /\ DisjointFlat(c1, c2)
        /\ ~alone[c1] /\ ~alone[c2]
        /\ store[collection(c1)] # InSequence(c1, c2)
        /\ Len(store[collection(c1)]) > Len(prior[collection(c1)])

\* ------------------------------------------------------------------ C12
\* calls c1 and c2 are flat syncs into the same collection that overlapped,
\* both carry a record with promptVersionId k, both answered 200, and no
\* other call has written to that collection
SameKeyFlat(c1, c2, k) ==
    /\ c1 # c2
    /\ req[c1].endpoint = SyncPrompt /\ req[c2].endpoint = SyncPrompt
    /\ NonEmptyArray(c1) /\ NonEmptyArray(c2)
    /\ collection(c1) = collection(c2)
    /\ k \in VersionIdsOf(req[c1].payload) \cap VersionIdsOf(req[c2].payload)
    /\ Succeeded(c1) /\ Succeeded(c2)
    /\ ~alone[c1] /\ ~alone[c2]
    /\ \A d \in Calls \ {c1, c2} : NoWriteTo(d, collection(c1))

\* the record of the write with promptVersionId k that completed last
LastWritten(n, k) == lastWrite[n][k].set

\* document doc holds every field of record rec, with its value
Holds(doc, rec) == \A f \in DOMAIN rec : f \in DOMAIN doc /\ doc[f] = rec[f]

\* field f of document doc is as some record with promptVersionId k of batch
\* B, or some document of coll with that key, has it
FieldFrom(doc, f, k, B) ==
    \E i \in DOMAIN B :
        /\ HasVersionId(B[i]) /\ B[i]["promptVersionId"] = k
        /\ f \in DOMAIN B[i] /\ B[i][f] = doc[f]

FieldStored(doc, f, k, coll) ==
    \E i \in DOMAIN coll :
        /\ Matches(coll[i], "promptVersionId", k)
        /\ f \in DOMAIN coll[i] /\ coll[i][f] = doc[f]

\* C12 as stated: when two /sync_prompt_versions calls concurrently upsert
\* the same promptVersionId, once both have completed the stored document
\* with that key is the record of the write that completed last, and nothing
\* else.
C12_LastWriteAlone ==
    \A c1, c2 \in Calls : \A k \in VersionIds :
        SameKeyFlat(c1, c2, k) =>
            FirstWith(store[collection(c1)], "promptVersionId", k)
                = LastWritten(collection(c1), k)

\* C12: when two /sync_prompt_versions calls concurrently upsert the same
\* promptVersionId, once both have completed a stored document with that key
\* holds every field of the record of the write that completed last, with
\* that record's values; its other fields are as a record with that key of
\* one of the two calls, or the document stored before, had them.
C12_LastWriteMerged ==
    \A c1, c2 \in Calls : \A k \in VersionIds :
        SameKeyFlat(c1, c2, k) =>
            LET n == collection(c1)
            IN  /\ lastWrite[n][k].call \in {c1, c2}
                /\ \E i \in DOMAIN store[n] :
                      /\ Matches(store[n][i], "promptVersionId", k)
                      /\ Holds(store[n][i], LastWritten(n, k))
                      /\ \A f \in DOMAIN store[n][i] :
                            \/ FieldFrom(store[n][i], f, k, req[c1].payload)
                            \/ FieldFrom(store[n][i], f, k, req[c2].payload)
                            \/ FieldStored(store[n][i], f, k, prior[n])

\* the write of c2 completed last, and the stored document carries a field
\* that the record of c2 lacks and a record of c1 has
C12_Witness ==
    \E c1, c2 \in Calls : \E k \in VersionIds :
        /\ SameKeyFlat(c1, c2, k)
        /\ lastWrite[collection(c1)][k].call = c2
        /\ prior[collection(c1)] = <<>>
        /\ LET doc == FirstWith(store[collection(c1)], "promptVersionId", k)
           IN  /\ Holds(doc, LastWritten(collection(c1), k))
               /\ \E f \in DOMAIN doc \ DOMAIN LastWritten(collection(c1), k) :
                     FieldFrom(doc, f, k, req[c1].payload)

\* ------------------------------------------------------------------ C13
\* C13: a /sync_member_dependencies call whose non-empty batch holds no
\* resolvable parentMemberId issues no store call at all, the connect
\* included, and is answered 400, whether the store can be reached or not.
C13_ValidationBeforeStore ==
    \A c \in Calls :
        (/\ req[c].endpoint = SyncMember
         /\ NonEmptyArray(c)
         /\ BatchParentIds(req[c].payload) = {})
            => /\ log[c] = <<>>
               /\ pc[c] = "done" => Answered(c, 400)

\* ------------------------------------------------------------------ C14
\* how often call c has issued the driver call what
Issued(c, what) == Cardinality({i \in DOMAIN log[c] : log[c][i] = what})

\* the last await of call c threw: the call has ended and the driver call it
\* issued last is not the close() that precedes a response of the try block
Threw(c) ==
    /\ pc[c] = "done"
    /\ log[c] # <<>>
    /\ log[c][Len(log[c])] # "close"

\* at most one response, sent when the handler ends; each driver call at most
\* once; a call whose await threw is answered 500
OneResponse ==
    \A c \in Calls :
        /\ Len(resp[c]) <= 1
        /\ pc[c] = "done" <=> Len(resp[c]) = 1
        /\ \A what \in {"connect", "bulkWrite", "deleteMany"} : Issued(c, what) <= 1
        /\ Threw(c) => Answered(c, 500)

\* once call c has answered, it issues no driver call, sends nothing more and
\* writes nothing
NothingAfterResponse ==
    \A c \in Calls :
        pc[c] = "done" =>
            /\ pc'[c] = "done"
            /\ log'[c] = log[c]
            /\ resp'[c] = resp[c]
            /\ applied'[c] = applied[c]

\* C14: every call to one of the three POST endpoints sends exactly one
\* response: never more than one, and a call that has arrived is answered in
\* the end; a call whose connect, bulkWrite or deleteMany failed is answered
\* 500; connect, bulkWrite and deleteMany are issued at most once per call,
\* and nothing is issued after the response.
C14_ExactlyOneResponse ==
    /\ []OneResponse
    /\ [][NothingAfterResponse]_vars
    /\ \A c \in Calls : (pc[c] # "idle") ~> (pc[c] = "done" /\ Len(resp[c]) = 1)

\* a call answered 500 after its bulkWrite threw, another answered 200 after
\* connect, bulkWrite, deleteMany and close, each issued once
C14_Witness ==
    \E c, d \in Calls :
        /\ Answered(c, 500) /\ log[c] = <<"connect", "bulkWrite">>
        /\ Succeeded(d)
        /\ log[d] = <<"connect", "bulkWrite", "deleteMany", "close">>

\* ------------------------------------------------------------------ C15
\* the collection the domain query parameter of call c names, 'Prompt' when
\* the parameter is absent
Selected(c) ==
    IF "domain" \in DOMAIN req[c].query /\ req[c].query["domain"] \notin Falsy
    THEN req[c].query["domain"]
    ELSE "Prompt"

\* every document of collection old is still in collection new, at its
\* place and with its promptVersionId
AllKept(old, new) ==
    \A i \in DOMAIN old :
        /\ i \in DOMAIN new
        /\ Get(new[i], "promptVersionId") = Get(old[i], "promptVersionId")
        /\ "promptVersionId" \in DOMAIN new[i] <=> "promptVersionId" \in DOMAIN old[i]

\* C15: a /sync_prompt_versions call issues one bulkWrite and no deleteMany;
\* after a call that ran with no other call in flight, whatever it answered,
\* every document the selected collection held before is still there with
\* its key, and every other collection is as it was.
C15_AdditiveOnly ==
    \A c \in Calls :
        req[c].endpoint = SyncPrompt =>
            /\ Issued(c, "deleteMany") = 0
            /\ Issued(c, "bulkWrite") <= 1
            /\ Succeeded(c) => Issued(c, "bulkWrite") = 1
            /\ (pc[c] = "done" /\ Settled(c)) =>
                  /\ AllKept(before[c][Selected(c)], store[Selected(c)])
                  /\ KeysOf(before[c][Selected(c)], "promptVersionId")
                        \subseteq KeysOf(store[Selected(c)], "promptVersionId")
                  /\ \A n \in Collections \ {Selected(c)} : store[n] = before[c][n]

\* a flat sync with domain=MemberDependencies ran alone and answered 200:
\* it added a document to that collection, which was not empty, and the
\* Prompt collection, not empty either, is as it was
C15_Witness ==
    \E c \in Calls :
        /\ req[c].endpoint = SyncPrompt
        /\ Selected(c) = "MemberDependencies"
        /\ Succeeded(c) /\ Settled(c)
        /\ before[c]["Prompt"] # <<>> /\ before[c]["MemberDependencies"] # <<>>
        /\ Len(store["MemberDependencies"]) > Len(before[c]["MemberDependencies"])
        /\ store["Prompt"] = before[c]["Prompt"]

\* ------------------------------------------------------------------ C16
\* at most one document per promptVersionId in every collection, and at most
\* one per parentMemberId in MemberDependencies
UniqueKeys(db) ==
    /\ \A n \in Collections : NoDuplicate(db[n], "promptVersionId")
    /\ NoDuplicate(db["MemberDependencies"], "parentMemberId")

\* C16: starting from collections without duplicate keys, every state the
\* database reaches through any sequence or interleaving of flat syncs, flat
\* deletes and reconciliations has at most one document per promptVersionId
\* in a flat collection and at most one per parentMemberId in
\* MemberDependencies.
C16_KeyUniqueness == UniqueKeys(prior) => UniqueKeys(store)

\* the same, of the states reached while every call so far ran alone
C16_UniqueWhenSerial ==
    (UniqueKeys(prior) /\ \A c \in Calls : alone[c]) => UniqueKeys(store)

\* ------------------------------------------------------------------ C17
\* the bulkWrite of call c threw
BulkWriteThrew(c) ==
    /\ Answered(c, 500)
    /\ resp[c][1]["error"] = "bulkWrite failed"

\* C17 as stated: when the bulkWrite of a /sync_member_dependencies call
\* fails, the call still issues its deleteMany.
C17_DeleteAfterFailedUpsert ==
    \A c \in Calls :
        (req[c].endpoint = SyncMember /\ BulkWriteThrew(c))
            => Issued(c, "deleteMany") = 1

\* C17: when the bulkWrite of a /sync_member_dependencies call fails, the
\* call ends there: it is answered 500 and issues no deleteMany (nor close);
\* a deleteMany is issued only by a call whose bulkWrite executed every
\* operation.
C17_FailedUpsertSkipsDelete ==
    \A c \in Calls :
        req[c].endpoint = SyncMember =>
            /\ BulkWriteThrew(c) => log[c] = <<"connect", "bulkWrite">>
            /\ Issued(c, "deleteMany") > 0 => applied[c] = Len(bulkOps[c])

\* a reconciliation that ran alone failed in the middle of its bulkWrite:
\* the stored document whose key is not in the batch is still there
C17_Witness ==
    \E c \in Calls :
        /\ req[c].endpoint = SyncMember
        /\ BulkWriteThrew(c) /\ Settled(c)
        /\ 0 < applied[c] /\ applied[c] < Len(bulkOps[c])
        /\ \E k \in KeysOf(before[c]["MemberDependencies"], "parentMemberId") :
              /\ k \notin BatchParentIds(req[c].payload)
              /\ k \in KeysOf(store["MemberDependencies"], "parentMemberId")

\* ------------------------------------------------------------------ C18
\* document doc carries a parentMemberId of the batch of call c
InBatch(c, doc) ==
    /\ "parentMemberId" \in DOMAIN doc
    /\ doc["parentMemberId"] \in BatchParentIds(req[c].payload)

\* call c has issued its deleteMany: its bulkWrite was issued before, has
\* executed every operation and has returned, and the ids of the filter are
\* the resolvable parentMemberIds of the batch
DeleteIssuedInOrder(c) ==
    Issued(c, "deleteMany") > 0 =>
        /\ Len(log[c]) >= 3
        /\ log[c][1] = "connect" /\ log[c][2] = "bulkWrite" /\ log[c][3] = "deleteMany"
        /\ applied[c] = Len(bulkOps[c])
        /\ Range(ids[c]) = BatchParentIds(req[c].payload)

\* the deleteMany of call c is executed in this step
DeleteExecuted(c) == pc[c] = "deleteMany" /\ pc'[c] = "close"

\* the step keeps every document of MemberDependencies that carries a
\* parentMemberId of the batch of call c, and removes every other one
KeepsBatch(c) ==
    LET old == store["MemberDependencies"]
        new == store'["MemberDependencies"]
    IN  new = SelectAt(old, {i \in DOMAIN old : InBatch(c, old[i])}, 1)

\* C18: in every /sync_member_dependencies call the deleteMany is issued
\* only after the bulkWrite has returned, its filter holds the
\* parentMemberIds of the input batch, and its execution removes no document
\* whose parentMemberId occurs in the batch (and every other document).
C18_DeleteAfterUpsert ==
    /\ [](\A c \in Calls : req[c].endpoint = SyncMember => DeleteIssuedInOrder(c))
    /\ [][\A c \in Calls :
            (req[c].endpoint = SyncMember /\ DeleteExecuted(c)) => KeepsBatch(c)]_vars

\* a reconciliation that overlapped with another call answered 200: its
\* deleteMany removed a document, and every parentMemberId of its batch is
\* stored
C18_Witness ==
    \E c \in Calls :
        /\ req[c].endpoint = SyncMember
        /\ Succeeded(c) /\ ~alone[c]
        /\ resp[c][1]["deleted"] >= 1
        /\ log[c] = <<"connect", "bulkWrite", "deleteMany", "close">>
        /\ BatchParentIds(req[c].payload)
              \subseteq KeysOf(store["MemberDependencies"], "parentMemberId")

\* ------------------------------------------------------------------ C19
\* document doc carries a valid promptVersionId of batch B
Targeted(doc, B) ==
    /\ "promptVersionId" \in DOMAIN doc
    /\ doc["promptVersionId"] \in VersionIdsOf(B)

\* C19: after a /delete_prompt_versions call that ran with no other call in
\* flight and answered 200, the selected collection holds the documents it
\* held before whose promptVersionId is not a valid id of the payload, in
\* their order and unchanged, and every other collection is as it was; the
\* count reported is the number of records with a valid id; when no record
\* has one, no deleteMany is issued and the count is 0.
C19_DeleteExactly ==
    \A c \in Calls :
        (req[c].endpoint = DeletePrompt /\ NonEmptyArray(c)) =>
            LET B   == req[c].payload
                old == before[c][Selected(c)]
            IN  /\ VersionIdsOf(B) = {} => Issued(c, "deleteMany") = 0
                /\ Issued(c, "bulkWrite") = 0
                /\ Succeeded(c) =>
                      /\ resp[c][1]["count"] = ValidCount(B)
                      /\ resp[c][1]["domain"] = Selected(c)
                      /\ Issued(c, "deleteMany") = IF VersionIdsOf(B) = {} THEN 0 ELSE 1
                /\ (Succeeded(c) /\ Settled(c)) =>
                      /\ store[Selected(c)]
                            = SelectAt(old, {i \in DOMAIN old : ~Targeted(old[i], B)}, 1)
                      /\ \A n \in Collections \ {Selected(c)} : store[n] = before[c][n]

\* a delete whose payload holds a record with an id and one without ran
\* alone and answered 200: the document with the id is gone, the stored
\* document without a promptVersionId is still there
C19_Witness ==
    \E c \in Calls :
        /\ req[c].endpoint = DeletePrompt
        /\ Succeeded(c) /\ Settled(c)
        /\ \E i \in DOMAIN req[c].payload : ~HasVersionId(req[c].payload[i])
        /\ resp[c][1]["count"] = 1
        /\ Len(store[Selected(c)]) < Len(before[c][Selected(c)])
        /\ \E i \in DOMAIN store[Selected(c)] :
              "promptVersionId" \notin DOMAIN store[Selected(c)][i]

\* a delete whose payload holds no valid id answered 200 with count 0
\* without a deleteMany
C19_NothingToDelete ==
    \E c \in Calls :
        /\ req[c].endpoint = DeletePrompt
        /\ Succeeded(c)
        /\ resp[c][1]["count"] = 0
        /\ log[c] = <<"connect", "close">>

\* ------------------------------------------------------------------ C20
\* the places of collection coll that hold a document with parentMemberId k
PlacesOf(coll, k) ==
    {i \in DOMAIN coll : "parentMemberId" \in DOMAIN coll[i] /\ coll[i]["parentMemberId"] = k}

\* C20: a /sync_member_dependencies call builds one operation per record
\* with a parentMemberId, in input order, repeated parentMemberIds included,
\* and reports their number as upserted; after a call that ran with no other
\* call in flight and answered 200 on a collection without duplicate keys,
\* there is exactly one document for each parentMemberId of the batch, with
\* the parentMember and the (deduplicated) dependentMembers of the last
\* record of the batch with that parentMemberId.
C20_RepeatedParentLastWins ==
    \A c \in Calls :
        (req[c].endpoint = SyncMember /\ Succeeded(c)) =>
            LET B     == req[c].payload
                keyed == KeyedRecords(B)
                coll  == store["MemberDependencies"]
            IN  /\ resp[c][1]["upserted"] = Len(keyed)
                /\ Len(bulkOps[c]) = Len(keyed)
                /\ \A j \in DOMAIN keyed :
                      /\ bulkOps[c][j].value = ParentIdOf(keyed[j])
                      /\ bulkOps[c][j].set["parentMember"] = keyed[j]["parentMember"]
                /\ (Settled(c) /\ NoDuplicate(before[c]["MemberDependencies"], "parentMemberId")) =>
                      \A i \in DOMAIN B :
                          LastForParent(B, i) =>
                              /\ Cardinality(PlacesOf(coll, ParentIdOf(B[i]))) = 1
                              /\ \A p \in PlacesOf(coll, ParentIdOf(B[i])) :
                                    /\ coll[p]["parentMember"] = B[i]["parentMember"]
                                    /\ coll[p]["dependentMembers"]
                                          = uniqueDependents(InputDeps(B[i]))

\* a batch of two records with the same parentMemberId, whose parentMember
\* and dependentMembers differ, was reconciled alone: upserted is 2 and the
\* one stored document is as the second record
C20_Witness ==
    \E c \in Calls :
        /\ req[c].endpoint = SyncMember
        /\ Succeeded(c) /\ Settled(c)
        /\ Len(req[c].payload) = 2
        /\ Resolvable(req[c].payload[1]) /\ Resolvable(req[c].payload[2])
        /\ ParentIdOf(req[c].payload[1]) = ParentIdOf(req[c].payload[2])
        /\ req[c].payload[1]["parentMember"] # req[c].payload[2]["parentMember"]
        /\ uniqueDependents(InputDeps(req[c].payload[1]))
              # uniqueDependents(InputDeps(req[c].payload[2]))
        /\ resp[c][1]["upserted"] = 2
        /\ Cardinality(PlacesOf(store["MemberDependencies"], ParentIdOf(req[c].payload[2]))) = 1
        /\ FirstWith(store["MemberDependencies"], "parentMemberId",
                     ParentIdOf(req[c].payload[2]))["parentMember"]
              = req[c].payload[2]["parentMember"]


====
